---- MODULE Spec2Model ----
(***************************************************************************)
(* SoundForge: the genome-to-melody decoder (genome_to_melody), the shape  *)
(* check of save_genome_to_midi, and the generation loop of main.          *)
(*                                                                         *)
(* Two specifications share the variables:                                 *)
(*   Spec        the run of main (the generation loop);                    *)
(*   SpecDecode  one call of genome_to_melody on arbitrary arguments,      *)
(*               one loop iteration per step, followed by the shape check  *)
(*               of save_genome_to_midi on the returned melody.            *)
(*                                                                         *)
(* Durations ("beat") are kept in units of note_length = 4/num_notes, so   *)
(* an entry k stands for the float k * note_length.                        *)
(***************************************************************************)
EXTENDS Integers, Sequences, FiniteSets, TLC

VARIABLES
    pc,                 \* position in main, or in the decode call
    opt,                \* the command line options of main / arguments of the call
    population,         \* main: list of genomes
    population_fitness, \* main: list of <<genome, rating>>, in evaluation order
    next_generation,    \* main: the next generation under construction
    population_id,      \* main: generation number
    running,            \* main: TRUE, then the last answer to the continue prompt
    j,                  \* main: index of the breeding loop
    fitness_calls,      \* history: calls of fitness() under the current population_id
    iterations,         \* history: how often the body of the while loop was entered
    genome,             \* decode: the genome argument
    notes,              \* decode: the NoteCode windows (line 42)
    melody,             \* decode: the melody dictionary
    raised              \* the exception that ended the run or the call ("none")

vars == <<pc, opt, population, population_fitness, next_generation, population_id,
          running, j, fitness_calls, iterations, genome, notes, melody, raised>>

mainVars == <<population, population_fitness, next_generation, population_id,
              running, j, fitness_calls, iterations>>

decodeVars == <<genome, notes, melody>>

-----------------------------------------------------------------------------
(* Bounds of the model *)

MaxGenomeLen == 8
MaxBars == 1
MaxNotes == 2
MaxSteps == 2
MaxPop == 4
MaxRating == 1
MaxIterations == 2

(* Program constants *)

BITS_PER_NOTE == 4
NUM_MUTATIONS == 2

-----------------------------------------------------------------------------
(* Helpers *)

Min(a, b) == IF a < b THEN a ELSE b

Range(s) == {s[i] : i \in DOMAIN s}

RECURSIVE Pow2(_)
Pow2(n) == IF n <= 0 THEN 1 ELSE 2 * Pow2(n - 1)

BitSeqs(n) == [1..n -> {0, 1}]

\* Python's s[lo:hi] for 0 <= lo <= hi: a slice past the end is cut short.
Slice(s, lo, hi) ==
    LET h == Min(hi, Len(s))
    IN  IF lo >= h THEN <<>> ELSE SubSeq(s, lo + 1, h)

-----------------------------------------------------------------------------
(* genome_to_melody *)

RECURSIVE int_from_bits(_)
int_from_bits(bits) ==
    IF bits = <<>> THEN 0 ELSE Head(bits) + 2 * int_from_bits(Tail(bits))

\* line 42: one window per note slot, whatever the length of the genome
NoteWindows(g, num_bars, num_notes) ==
    [i \in 1..(num_bars * num_notes) |->
        Slice(g, (i - 1) * BITS_PER_NOTE, (i - 1) * BITS_PER_NOTE + BITS_PER_NOTE)]

\* EventScale(root=key, scale=scale, first=root) of the pyo library: the table
\* of C major from octave 4 over two octaves. Only its being a non-empty table
\* indexed modulo its length matters below.
scl == <<48, 50, 52, 53, 55, 57, 59, 60, 62, 64, 65, 67, 69, 71, 72>>

EmptyMelody == [notes |-> <<>>, velocity |-> <<>>, beat |-> <<>>]

NoteIntegerUnmasked(note, pauses) ==
    IF ~pauses THEN int_from_bits(note) % Pow2(BITS_PER_NOTE)
    ELSE int_from_bits(note)

\* lines 56-59
NoteInteger(note, pauses) ==
    IF ~pauses THEN int_from_bits(note) % Pow2(BITS_PER_NOTE - 1)
    ELSE int_from_bits(note)

DecodeNoteRestWithoutVelocity(m, integer) ==
    IF integer >= Pow2(BITS_PER_NOTE - 1)
    THEN [notes |-> Append(m.notes, 0),
          velocity |-> m.velocity,
          beat |-> Append(m.beat, 1)]
    ELSE IF Len(m.notes) > 0 /\ m.notes[Len(m.notes)] = integer
         THEN [m EXCEPT !.beat[Len(m.beat)] = @ + 1]
         ELSE [notes |-> Append(m.notes, integer),
               velocity |-> Append(m.velocity, 127),
               beat |-> Append(m.beat, 1)]

\* lines 61-71: the body of the loop for one NoteCode value
DecodeNote(m, integer) ==
    IF integer >= Pow2(BITS_PER_NOTE - 1)
    THEN [notes |-> Append(m.notes, 0),
          velocity |-> Append(m.velocity, 0),
          beat |-> Append(m.beat, 1)]
    ELSE IF Len(m.notes) > 0 /\ m.notes[Len(m.notes)] = integer
         THEN [m EXCEPT !.beat[Len(m.beat)] = @ + 1]
         ELSE [notes |-> Append(m.notes, integer),
               velocity |-> Append(m.velocity, 127),
               beat |-> Append(m.beat, 1)]

\* lines 55-71: the whole loop
RECURSIVE DecodeLoop(_, _, _)
DecodeLoop(m, ns, pauses) ==
    IF ns = <<>> THEN m
    ELSE DecodeLoop(DecodeNote(m, NoteInteger(Head(ns), pauses)), Tail(ns), pauses)

\* lines 73-77: one pitch layer per step
StepLayers(pitches, num_steps) ==
    [step \in 1..num_steps |->
        [n \in 1..Len(pitches) |-> scl[((pitches[n] + (step - 1) * 2) % Len(scl)) + 1]]]

\* lines 40-78: the call as a whole; raised is the exception, if any
genome_to_melody(g, num_bars, num_notes, num_steps, pauses) ==
    IF num_notes = 0
    THEN [raised |-> "ZeroDivisionError", melody |-> EmptyMelody]
    ELSE LET m == DecodeLoop(EmptyMelody, NoteWindows(g, num_bars, num_notes), pauses)
         IN  [raised |-> "none",
              melody |-> [m EXCEPT !.notes = StepLayers(m.notes, num_steps)]]

\* lines 142-143 of save_genome_to_midi, on a melody genome_to_melody returned
ShapeCheck(m) ==
    IF Len(m.notes) = 0 THEN "IndexError"
    ELSE IF Len(m.notes[1]) # Len(m.beat) \/ Len(m.notes[1]) # Len(m.velocity)
         THEN "ValueError"
         ELSE "none"

\* lines 140-143: the exception save_genome_to_midi raises before writing, if any
save_genome_to_midi(g, o) ==
    LET r == genome_to_melody(g, o.num_bars, o.num_notes, o.num_steps, o.pauses)
    IN  IF r.raised # "none" THEN r.raised ELSE ShapeCheck(r.melody)

-----------------------------------------------------------------------------
(* SpecDecode: one call of genome_to_melody, then the shape check *)

DecodeArgs ==
    [num_bars : 0..MaxBars, num_notes : 0..MaxNotes, num_steps : 0..MaxSteps,
     pauses : BOOLEAN, population_size : {0}]

InitDecode ==
    /\ pc = "decode_call"
    /\ opt \in DecodeArgs
    /\ genome \in UNION {BitSeqs(n) : n \in 0..MaxGenomeLen}
    /\ notes = <<>>
    /\ melody = EmptyMelody
    /\ raised = "none"
    /\ population = <<>>
    /\ population_fitness = <<>>
    /\ next_generation = <<>>
    /\ population_id = 0
    /\ running = TRUE
    /\ j = 0
    /\ fitness_calls = 0
    /\ iterations = 0

\* lines 42-52: the windows, note_length (a division by num_notes), the tables
DecodeCall ==
    /\ pc = "decode_call"
    /\ notes' = NoteWindows(genome, opt.num_bars, opt.num_notes)
    /\ IF opt.num_notes = 0
       THEN pc' = "decode_raised" /\ raised' = "ZeroDivisionError"
       ELSE pc' = "decode_loop" /\ raised' = raised
    /\ melody' = EmptyMelody
    /\ UNCHANGED <<opt, genome>>
    /\ UNCHANGED mainVars

\* lines 55-71: one iteration of the loop over the windows
DecodeStep ==
    /\ pc = "decode_loop"
    /\ notes # <<>>
    /\ melody' = DecodeNote(melody, NoteInteger(Head(notes), opt.pauses))
    /\ notes' = Tail(notes)
    /\ UNCHANGED <<pc, opt, genome, raised>>
    /\ UNCHANGED mainVars

\* lines 73-78: the layers, and the return
DecodeReturn ==
    /\ pc = "decode_loop"
    /\ notes = <<>>
    /\ melody' = [melody EXCEPT !.notes = StepLayers(melody.notes, opt.num_steps)]
    /\ pc' = "decode_returned"
    /\ UNCHANGED <<opt, genome, notes, raised>>
    /\ UNCHANGED mainVars

\* lines 142-143: save_genome_to_midi checks the melody it got
SaveCheck ==
    /\ pc = "decode_returned"
    /\ raised' = ShapeCheck(melody)
    /\ pc' = "save_checked"
    /\ UNCHANGED <<opt, genome, notes, melody>>
    /\ UNCHANGED mainVars

NextDecode == DecodeCall \/ DecodeStep \/ DecodeReturn \/ SaveCheck

SpecDecode == InitDecode /\ [][NextDecode]_vars

-----------------------------------------------------------------------------
(* Properties of genome_to_melody, checked under SpecDecode *)

ExpectedLength == opt.num_bars * opt.num_notes * BITS_PER_NOTE

Returned == pc \in {"decode_returned", "save_checked"}

Last(s) == s[Len(s)]

\* C3: a non-rest NoteCode with value v extends the last Melody entry by
\* note_length only if that entry is sounding (velocity 127) and has pitch
\* index v; in every other case, also after a rest, it appends the entry
\* (v, 127, note_length). No rest entry is ever extended. (Stated for genomes
\* of the expected length.)
C3_TieRule ==
    [][(pc = "decode_loop" /\ notes # <<>> /\ Len(genome) = ExpectedLength
            /\ NoteInteger(Head(notes), opt.pauses) < Pow2(BITS_PER_NOTE - 1))
        => LET v == NoteInteger(Head(notes), opt.pauses)
           IN  IF /\ Len(melody.velocity) > 0
                  /\ Last(melody.velocity) = 127
                  /\ Last(melody.notes) = v
               THEN melody' = [melody EXCEPT !.beat[Len(melody.beat)] = @ + 1]
               ELSE melody' = [notes |-> Append(melody.notes, v),
                               velocity |-> Append(melody.velocity, 127),
                               beat |-> Append(melody.beat, 1)]]_vars

\* C4: a call with a genome whose length is not bars * notesPerBar * 4 returns
\* no Melody (it fails with EncodingLengthMismatch).
C4_LengthMismatchReturnsNoMelody ==
    (Len(genome) # ExpectedLength) => ~Returned

\* C5: the empty genome with bars = 0 and notesPerBar = 0 decodes to an empty
\* Melody (no velocity, no duration, every layer empty) and raises nothing.
C5_EmptyGenomeDecodesToEmptyMelody ==
    (genome = <<>> /\ opt.num_bars = 0 /\ opt.num_notes = 0 /\ pc # "decode_call")
        => /\ raised = "none"
           /\ pc # "decode_raised"
           /\ melody.velocity = <<>>
           /\ melody.beat = <<>>
           /\ \A k \in DOMAIN melody.notes : melody.notes[k] = <<>>

\* C6: with steps >= 1 the returned Melody has exactly `steps` pitch layers,
\* each as long as the velocity and the duration sequence, and the shape check
\* of save_genome_to_midi raises nothing for it.
C6_MelodyShape ==
    (Returned /\ opt.num_steps >= 1)
        => /\ Len(melody.notes) = opt.num_steps
           /\ Len(melody.velocity) = Len(melody.beat)
           /\ \A k \in DOMAIN melody.notes :
                 Len(melody.notes[k]) = Len(melody.velocity)
           /\ (pc = "save_checked" => raised = "none")

C6_Witness ==
    /\ pc = "save_checked"
    /\ raised = "none"
    /\ opt.num_steps = 2
    /\ opt.pauses
    /\ melody.velocity = <<0, 127>>
    /\ Len(melody.notes) = 2

\* C9: with pauses off every NoteCode value is in 0..7 after the mask, so
\* every Melody entry has velocity 127 and none is a rest.
C9_NoRestWithoutPauses ==
    ~opt.pauses
        => /\ \A i \in DOMAIN notes :
                 NoteInteger(notes[i], opt.pauses) \in 0..(Pow2(BITS_PER_NOTE - 1) - 1)
           /\ \A i \in DOMAIN melody.velocity : melody.velocity[i] = 127

C9_Witness ==
    /\ pc = "decode_returned"
    /\ ~opt.pauses
    /\ Len(genome) = ExpectedLength
    /\ \E i \in 1..(opt.num_bars * opt.num_notes) :
          int_from_bits(NoteWindows(genome, opt.num_bars, opt.num_notes)[i])
              >= Pow2(BITS_PER_NOTE - 1)
    /\ Len(melody.velocity) = 2

-----------------------------------------------------------------------------
(* The operators of the Backbone module, which main imports *)

\* The bit positions (0-based) on which the random source is explored: a fresh
\* genome draws its other bits as 0 and a mutation trial picks one of these.
RandomSites == {0}

generate_genome(length) ==
    {g \in BitSeqs(length) : \A i \in 1..length : (i - 1) \notin RandomSites => g[i] = 0}

\* Two members, drawn with replacement with probability proportional to
\* max(fitness_lookup(genome), epsilon) > 0: any two members.
selection_pair(pop) == Range(pop) \X Range(pop)

CrossoverFails(a, b) == Len(a) # Len(b) \/ Len(a) < 2

single_point_crossover(a, b) ==
    {<<Slice(a, 0, p) \o Slice(b, p, Len(b)), Slice(b, 0, p) \o Slice(a, p, Len(a))>> :
        p \in 1..(Len(a) - 1)}

Flip(g, index) == [g EXCEPT ![index + 1] = 1 - @]

\* one trial: a position, flipped or not; the input is not modified
MutationTrial(g) ==
    {g} \cup {Flip(g, index) : index \in RandomSites \cap (0..(Len(g) - 1))}

RECURSIVE mutation(_, _)
mutation(g, num) ==
    IF num = 0 THEN {g}
    ELSE UNION {MutationTrial(h) : h \in mutation(g, num - 1)}

-----------------------------------------------------------------------------
(* main *)

Ratings == 0..MaxRating

Answers == {"yes", "no", "maybe", ""}

\* a Python string used as a condition
Truthy(r) == r # ""

IndexPermutations(n) == {f \in [1..n -> 1..n] : \A a, b \in 1..n : f[a] = f[b] => a = b}

\* random.shuffle: the list in any order
Shuffles(pop) == {[i \in 1..Len(pop) |-> pop[f[i]]] : f \in IndexPermutations(Len(pop))}

\* lines 230-234: the first entry of population_fitness whose genome equals
\* the argument
fitness_lookup(pf, g) ==
    LET hits == {i \in DOMAIN pf : pf[i][1] = g}
    IN  IF hits = {} THEN 0
        ELSE pf[CHOOSE i \in hits : \A k \in hits : i <= k][2]

RECURSIVE InsertDescending(_, _)
InsertDescending(s, e) ==
    IF s = <<>> THEN <<e>>
    ELSE IF Head(s)[2] >= e[2] THEN <<Head(s)>> \o InsertDescending(Tail(s), e)
         ELSE <<e>> \o s

\* line 220: sorted(..., key=score, reverse=True), which is stable
RECURSIVE SortedDescending(_)
SortedDescending(pf) ==
    IF pf = <<>> THEN <<>>
    ELSE InsertDescending(SortedDescending(SubSeq(pf, 1, Len(pf) - 1)), pf[Len(pf)])

\* population[-2:]
EliteWorstTwo(pop) == Slice(pop, IF Len(pop) > 2 THEN Len(pop) - 2 ELSE 0, Len(pop))

\* line 224: next_generation = population[0:2]
Elite(pop) == Slice(pop, 0, 2)

\* line 228: range(int(len(population) / 2) - 1)
BreedingRounds(pop) == (Len(pop) \div 2) - 1

MainOptions ==
    {[num_bars |-> bn[1], num_notes |-> bn[2], num_steps |-> 1, pauses |-> FALSE,
      population_size |-> n] :
        bn \in {<<1, 1>>, <<1, 0>>}, n \in 0..MaxPop}

\* lines 202-210
Init ==
    /\ pc = "while"
    /\ opt \in MainOptions
    /\ population \in [1..opt.population_size ->
                          generate_genome(opt.num_bars * opt.num_notes * BITS_PER_NOTE)]
    /\ population_fitness = <<>>
    /\ next_generation = <<>>
    /\ population_id = 0
    /\ running = "True"
    /\ j = 0
    /\ fitness_calls = 0
    /\ iterations = 0
    /\ genome = <<>>
    /\ notes = <<>>
    /\ melody = EmptyMelody
    /\ raised = "none"

\* lines 211-213: the loop is entered and the population shuffled
LoopEnter ==
    /\ pc = "while"
    /\ Truthy(running)
    /\ iterations < MaxIterations
    /\ iterations' = iterations + 1
    /\ population' \in Shuffles(population)
    /\ pc' = "fitness"
    /\ UNCHANGED <<opt, population_fitness, next_generation, population_id, running, j,
                   fitness_calls, raised>>
    /\ UNCHANGED decodeVars

\* line 211: an empty answer ends the loop, and main returns
LoopExit ==
    /\ pc = "while"
    /\ ~Truthy(running)
    /\ pc' = "returned"
    /\ UNCHANGED <<opt, raised>>
    /\ UNCHANGED mainVars
    /\ UNCHANGED decodeVars

\* lines 216-218 and 101-125: fitness() for the next member of the list: the
\* melody is decoded and played, and the rating read
Fitness ==
    /\ pc = "fitness"
    /\ Len(population_fitness) < Len(population)
    /\ fitness_calls' = fitness_calls + 1
    /\ LET g == population[Len(population_fitness) + 1]
           r == genome_to_melody(g, opt.num_bars, opt.num_notes, opt.num_steps, opt.pauses)
       IN  IF r.raised # "none"
           THEN /\ pc' = "raised"
                /\ raised' = r.raised
                /\ UNCHANGED population_fitness
           ELSE \/ \E rating \in Ratings :
                     /\ population_fitness' = Append(population_fitness, <<g, rating>>)
                     /\ UNCHANGED <<pc, raised>>
                \/ /\ pc' = "raised"              \* int(input()) of a non-number
                   /\ raised' = "ValueError"
                   /\ UNCHANGED population_fitness
    /\ UNCHANGED <<opt, population, next_generation, population_id, running, j, iterations>>
    /\ UNCHANGED decodeVars

\* lines 220-224: the population in descending order of rating, and the elite
SortPopulation ==
    /\ pc = "fitness"
    /\ Len(population_fitness) = Len(population)
    /\ LET sorted_population_fitness == SortedDescending(population_fitness)
           sorted == [i \in 1..Len(sorted_population_fitness) |->
                         sorted_population_fitness[i][1]]
       IN  /\ population' = sorted
           /\ next_generation' = Elite(sorted)
    /\ j' = 0
    /\ pc' = "breed"
    /\ UNCHANGED <<opt, population_fitness, population_id, running, fitness_calls,
                   iterations, raised>>
    /\ UNCHANGED decodeVars

\* lines 228-242: one pass of the breeding loop
Breed ==
    /\ pc = "breed"
    /\ j < BreedingRounds(population)
    /\ \E parents \in selection_pair(population) :
          IF CrossoverFails(parents[1], parents[2])
          THEN /\ pc' = "raised"
               /\ raised' = "CrossoverLengthMismatch"
               /\ UNCHANGED <<next_generation, j>>
          ELSE \E offspring \in single_point_crossover(parents[1], parents[2]) :
               \E offspring_a \in mutation(offspring[1], NUM_MUTATIONS) :
               \E offspring_b \in mutation(offspring[2], NUM_MUTATIONS) :
                  /\ next_generation' = next_generation \o <<offspring_a, offspring_b>>
                  /\ j' = j + 1
                  /\ UNCHANGED <<pc, raised>>
    /\ UNCHANGED <<opt, population, population_fitness, population_id, running,
                   fitness_calls, iterations>>
    /\ UNCHANGED decodeVars

\* lines 244-267: the two best tracks are played: population[0], population[1]
PlayBest ==
    /\ pc = "breed"
    /\ j >= BreedingRounds(population)
    /\ IF Len(population) < 2
       THEN pc' = "raised" /\ raised' = "IndexError"
       ELSE pc' = "save_prompt" /\ UNCHANGED raised
    /\ UNCHANGED opt
    /\ UNCHANGED mainVars
    /\ UNCHANGED decodeVars

RECURSIVE FirstError(_, _)
FirstError(pop, o) ==
    IF pop = <<>> THEN "none"
    ELSE IF save_genome_to_midi(Head(pop), o) # "none"
         THEN save_genome_to_midi(Head(pop), o)
         ELSE FirstError(Tail(pop), o)

\* lines 270-280
SavePrompt ==
    /\ pc = "save_prompt"
    /\ \E download \in {"yes", "no", "maybe"} :
          IF download = "yes" /\ FirstError(population, opt) # "none"
          THEN pc' = "raised" /\ raised' = FirstError(population, opt)
          ELSE pc' = "continue_prompt" /\ UNCHANGED raised
    /\ UNCHANGED opt
    /\ UNCHANGED mainVars
    /\ UNCHANGED decodeVars

\* lines 282-286 and 296-297. After the answer the values of population_fitness
\* and next_generation are never read again (lines 216 and 224 rebind them in
\* the next pass), so they are dropped here.
ContinuePrompt ==
    /\ pc = "continue_prompt"
    /\ \E answer \in Answers :
          /\ running' = answer
          /\ IF answer = "yes"
             THEN /\ population' = next_generation
                  /\ population_id' = population_id + 1
                  /\ fitness_calls' = 0
                  /\ pc' = "while"
             ELSE /\ pc' = IF answer = "no" THEN "feedback_prompt" ELSE "while"
                  /\ UNCHANGED <<population, population_id, fitness_calls>>
    /\ population_fitness' = <<>>
    /\ next_generation' = <<>>
    /\ UNCHANGED <<opt, j, iterations, raised>>
    /\ UNCHANGED decodeVars

\* lines 287-295: exit() only on "yes" and on "no"
FeedbackPrompt ==
    /\ pc = "feedback_prompt"
    /\ \E feedback \in {"yes", "no", "maybe"} :
          pc' = IF feedback \in {"yes", "no"} THEN "exited" ELSE "while"
    /\ UNCHANGED <<opt, raised>>
    /\ UNCHANGED mainVars
    /\ UNCHANGED decodeVars

Next ==
    \/ LoopEnter
    \/ LoopExit
    \/ Fitness
    \/ SortPopulation
    \/ Breed
    \/ PlayBest
    \/ SavePrompt
    \/ ContinuePrompt
    \/ FeedbackPrompt

Spec == Init /\ [][Next]_vars

-----------------------------------------------------------------------------
(* Properties of main, checked under Spec *)

\* The place entry i of the ratings takes when they are ordered by descending
\* score, an earlier entry first among equal scores.
Rank(pf, i) ==
    1 + Cardinality({k \in DOMAIN pf :
                        \/ pf[k][2] > pf[i][2]
                        \/ (pf[k][2] = pf[i][2] /\ k < i)})

\* C1: the population has population_size genomes in every generation.
C1_PopulationSizeConstant ==
    Len(population) = opt.population_size

\* C2: when a generation of at least two genomes is replaced, the genomes
\* ranked first and second by the supplied scores are members of the next
\* generation, bit for bit.
C2_Elitism ==
    [][(pc = "continue_prompt" /\ population_id' = population_id + 1
            /\ Len(population) >= 2)
        => \A i \in DOMAIN population_fitness :
              Rank(population_fitness, i) <= 2
                  => population_fitness[i][1] \in Range(population')]_vars

C2_Witness ==
    /\ pc = "while"
    /\ running = "yes"
    /\ population_id = 1
    /\ population = <<<<1, 0, 0, 0>>, <<1, 0, 0, 0>>, <<0, 0, 0, 0>>, <<0, 0, 0, 0>>>>

\* C7: while the next generation is bred, fitness_lookup gives for every
\* member of the population the score that member was given in this
\* generation, and 0 for a genome that is not in the population.
C7_LookupReturnsMemberScore ==
    (pc = "breed" /\ j < BreedingRounds(population))
        => /\ \A i \in DOMAIN population_fitness :
                 fitness_lookup(population_fitness, population_fitness[i][1])
                     = population_fitness[i][2]
           /\ \A g \in BitSeqs(opt.num_bars * opt.num_notes * BITS_PER_NOTE) :
                 g \notin Range(population)
                     => fitness_lookup(population_fitness, g) = 0

\* C8: under one value of population_id fitness is called exactly once for
\* each member of the population: never more often than there are members,
\* and for all of them once the ratings are complete.
C8_FitnessOncePerMember ==
    /\ fitness_calls <= Len(population)
    /\ pc \in {"breed", "save_prompt", "continue_prompt"}
          => fitness_calls = Len(population)

\* C10: once the answer to the continue prompt is "no", no fitness evaluation
\* is requested any more and population_id does not change.
C10_NoEndsTheRun ==
    [][running = "no"
        => (fitness_calls' = fitness_calls /\ population_id' = population_id)]_vars

====
